---------------------------- MODULE Spec2Model ----------------------------
(***************************************************************************)
(* A model of the probe dispatcher of vapt_tools.py: vapt_security_test    *)
(* and the six probes it awaits in turn.  One step of the model is one     *)
(* request/response exchange of a probe (the only suspension points of the *)
(* coroutine), the opening of the run, or the building of the report.      *)
(* A second part models run_security_test of app.py, the generator that    *)
(* runs the agent in a background thread and polls it.                     *)
(*                                                                         *)
(* Texts are modelled by the fragments they are made of: a URL, a request  *)
(* body and a response body are sequences or sets of string fragments, and *)
(* "x in text" of the source is membership of the fragment x.              *)
(***************************************************************************)
EXTENDS Integers, Sequences, FiniteSets, TLC

VARIABLES
    args,          \* the args dict vapt_security_test was called with
    pc,            \* position of the coroutine vapt_security_test
    session,       \* the aiohttp.ClientSession of the run: none, open, closed
    method,        \* local `method`
    test_types,    \* local `test_types`
    headers,       \* local `headers`
    body,          \* local `body`
    i,             \* iterations the running probe's loop has completed
    payload,       \* loop variable `payload` of the SQLi / XSS probe
    request,       \* the request issued last
    responses,     \* the outcomes the running (or last) probe has received
    returned,      \* sql_results, xss_results, ...: what each probe returned
    started,       \* the probes in the order of their first request
    all_results,   \* local `all_results`
    report,        \* the report returned by vapt_security_test
    trace,         \* the outcomes of all requests of the run, when recorded
    runs           \* the earlier invocations of vapt_security_test

\* The state of run_security_test of app.py: the generator, its background
\* thread agent_worker, and what they share.
VARIABLES
    generator,          \* position of the generator run_security_test
    worker,             \* position of the thread agent_worker
    lock,               \* holder of `lock`: "free", "generator" or "worker"
    progress_messages,  \* the list `progress_messages`
    result,             \* the dict `result`
    last_len,           \* local `last_len` of the polling loop
    yields              \* the tuples the generator has yielded

toolvars == <<args, pc, session, method, test_types, headers, body, i, payload,
              request, responses, returned, started, all_results, report,
              trace, runs>>

appvars == <<generator, worker, lock, progress_messages, result, last_len,
             yields>>

vars == <<toolvars, appvars>>

----------------------------------------------------------------------------
(* Optional values (Python's None)                                          *)

None == [some |-> FALSE]

Some(x) == [some |-> TRUE, val |-> x]

\* Python truthiness of an optional string / list / dict modelled as a
\* sequence, set of pairs or function: None and the empty value are falsy.
Truthy(o) == o.some /\ o.val # <<>>

----------------------------------------------------------------------------
(* Constants of the source                                                  *)

Endpoint == "https://api.example.com/v1/users"

\* injection_payloads with one payload more.
injection_payloads_more ==
    << "' OR '1'='1",
       "' OR '1'='1' --",
       "' UNION SELECT NULL--",
       "admin'--",
       "1' AND '1'='1",
       "'; DROP TABLE users--" >>

injection_payloads ==
    << "' OR '1'='1",
       "' OR '1'='1' --",
       "' UNION SELECT NULL--",
       "admin'--",
       "1' AND '1'='1" >>

xss_payloads ==
    << "<script>alert('XSS')</script>",
       "<img src=x onerror=alert('XSS')>",
       "javascript:alert('XSS')" >>

error_indicators ==
    { "sql", "mysql", "sqlite", "postgresql", "oracle", "syntax error",
      "unclosed quotation", "database error" }

rate_limit_requests == 50

InjectionTimeout == 10

RateLimitTimeout == 5

MutatingMethods == {"POST", "PUT", "PATCH"}

DefaultTestTypes == <<"injection", "auth", "rate_limit", "cors", "headers">>

Probes == <<"sql", "xss", "auth", "rate", "cors", "headers">>

\* The test type whose presence in test_types guards each probe.
GuardOf(p) ==
    CASE p = "sql" -> "injection"
      [] p = "xss" -> "injection"
      [] p = "auth" -> "auth"
      [] p = "rate" -> "rate_limit"
      [] p = "cors" -> "cors"
      [] p = "headers" -> "headers"

----------------------------------------------------------------------------
(* Helpers                                                                  *)

Range(s) == {s[k] : k \in DOMAIN s}

\* str.lower() on the fragments a response body is drawn from.
Lower(s) ==
    CASE s = "SQL" -> "sql"
      [] s = "MySQL" -> "mysql"
      [] s = "Syntax Error" -> "syntax error"
      [] s = "ORACLE" -> "oracle"
      [] OTHER -> s

\* any(indicator in response_text.lower() for indicator in error_indicators)
HasSqlError(text) == \E f \in text : Lower(f) \in error_indicators

\* A reflection check that takes any payload of the list for a match.
ReflectsAny(text, pl) ==
    \E q \in { "<script>alert('XSS')</script>",
               "<img src=x onerror=alert('XSS')>",
               "javascript:alert('XSS')" } : q \in text

\* payload in response_text
Reflects(text, pl) == pl \in text

\* json.dumps({"input": payload})
JsonInput(pl) == <<"{\"input\": \"", pl, "\"}">>

\* VAPTTestResult leaving evidence at its default, None.
VAPTTestResult_default(tt, sev, st, ev) ==
    [endpoint |-> Endpoint, test_type |-> tt, severity |-> sev, status |-> st,
     evidence |-> None]

VAPTTestResult(tt, sev, st, ev) ==
    [endpoint |-> Endpoint, test_type |-> tt, severity |-> sev, status |-> st,
     evidence |-> ev]

\* The transport's answer to one request: a response, or an exception.
Response(st, text, hdrs) ==
    [ok |-> TRUE, status |-> st, text |-> text, headers |-> hdrs, error |-> ""]

Failure(e) ==
    [ok |-> FALSE, status |-> 0, text |-> {}, headers |-> <<>>, error |-> e]

NoRequest ==
    [probe |-> "", verb |-> "", url |-> <<>>, headers |-> <<>>, data |-> None,
     timeout |-> 0]

NoReturn == [p \in Range(Probes) |-> None]

----------------------------------------------------------------------------
(* vapt_security_test: the chain of `if "<type>" in test_types` blocks      *)

\* Requested looking at the first element of the list only.
Requested_first(types, p) == types # <<>> /\ GuardOf(p) = types[1]

Requested(types, p) == GuardOf(p) \in Range(types)

\* NextFrom with the guards dropped: every probe runs whatever was requested.
NextFromNoSkip(types, k) ==
    IF k > Len(Probes) THEN "report" ELSE Probes[k]

\* The position after the probe at index k of Probes has returned: the next
\* probe whose guard holds, or the building of the report.
RECURSIVE NextFrom(_, _)
NextFrom(types, k) ==
    IF k > Len(Probes) THEN "report"
    ELSE IF Requested(types, Probes[k]) THEN Probes[k]
    ELSE NextFrom(types, k + 1)

IndexOf(p) == CHOOSE k \in DOMAIN Probes : Probes[k] = p

After(types, p) == NextFrom(types, IndexOf(p) + 1)

\* Return with the probe's Findings put in front of those collected so far.
Return_prepend(p, res) ==
    /\ returned' = [returned EXCEPT ![p] = Some(res)]
    /\ all_results' = res \o all_results
    /\ pc' = After(test_types, p)
    /\ session' = IF After(test_types, p) = "report" THEN "closed" ELSE session
    /\ i' = 0

\* Return with a session that is created without `async with` and never
\* closed.
Return_unreleased(p, res) ==
    /\ returned' = [returned EXCEPT ![p] = Some(res)]
    /\ all_results' = all_results \o res
    /\ pc' = After(test_types, p)
    /\ session' = session
    /\ i' = 0

\* A probe returns `res`: the caller extends all_results and goes on.
Return(p, res) ==
    /\ returned' = [returned EXCEPT ![p] = Some(res)]
    /\ all_results' = all_results \o res
    /\ pc' = After(test_types, p)
    /\ session' = IF After(test_types, p) = "report" THEN "closed" ELSE session
    /\ i' = 0

\* Continue handing control to the next probe while the loop of the running
\* one is still open, as a dispatcher gathering the probes would.
Continue_interleaved ==
    /\ i' = i + 1
    /\ pc' = After(test_types, pc)
    /\ UNCHANGED <<returned, all_results, session>>

\* The probe's loop goes round again.
Continue ==
    /\ i' = i + 1
    /\ UNCHANGED <<returned, all_results, pc, session>>

\* Bookkeeping of one exchange of probe p: the request sent and its outcome.
Exchange(p, pl, req, r) ==
    /\ session = "open"
    /\ payload' = pl
    /\ request' = req
    /\ responses' = IF i = 0 THEN <<r>> ELSE Append(responses, r)
    /\ started' = IF i = 0 THEN Append(started, p) ELSE started
    /\ trace' = IF trace.some THEN Some(Append(trace.val, r)) ELSE trace
    /\ UNCHANGED <<args, method, test_types, headers, body, report, runs,
                   appvars>>


----------------------------------------------------------------------------
(* The probes.  Each action is one iteration of the probe's loop (or the    *)
(* probe's single request) with the outcome r of the request, up to and     *)
(* including the return to vapt_security_test when the probe ends there.    *)

\* Warning with a severity of its own, outside the five of the summary.
Warning_unlisted(tt, r) ==
    VAPTTestResult(tt, "warning", "warning", [error |-> r.error])

Warning(tt, r) ==
    VAPTTestResult(tt, "info", "warning", [error |-> r.error])

\* PayloadRequest with the payload injected into the caller's body and the
\* body sent whatever the method.
PayloadRequest_inject(p, param, pl) ==
    LET test_url == IF method = "GET" THEN <<Endpoint, param, pl>>
                    ELSE <<Endpoint>>
        test_body == IF Truthy(body) THEN body.val \o <<pl>> ELSE JsonInput(pl)
    IN  [probe |-> p, verb |-> method, url |-> test_url, headers |-> headers,
         data |-> Some(test_body), timeout |-> InjectionTimeout]

\* The request of one iteration of the SQLi / XSS payload loop.
PayloadRequest(p, param, pl) ==
    LET test_url == IF method = "GET" THEN <<Endpoint, param, pl>>
                    ELSE <<Endpoint>>
        test_body == IF Truthy(body) THEN body.val ELSE JsonInput(pl)
    IN  [probe |-> p, verb |-> method, url |-> test_url, headers |-> headers,
         data |-> IF method \in MutatingMethods THEN Some(test_body) ELSE None,
         timeout |-> InjectionTimeout]

PlainRequest(p, hdrs, t) ==
    [probe |-> p, verb |-> method, url |-> <<Endpoint>>, headers |-> hdrs,
     data |-> None, timeout |-> t]

\* test_sql_injection without the break after a match: the loop goes on to
\* the next payload.
test_sql_injection_nobreak(r) ==
    /\ pc = "sql"
    /\ LET pl == injection_payloads[i + 1] IN
       /\ Exchange("sql", pl, PayloadRequest("sql", "?q=", pl), r)
       /\ IF ~r.ok
          THEN Return("sql", <<Warning("SQL Injection Test", r)>>)
          ELSE IF i + 1 < Len(injection_payloads)
          THEN Continue
          ELSE IF HasSqlError(r.text)
          THEN Return("sql",
                 <<VAPTTestResult("SQL Injection", "critical", "vulnerable",
                     [payload |-> pl, status_code |-> r.status])>>)
          ELSE Return("sql", <<>>)

test_sql_injection(r) ==
    /\ pc = "sql"
    /\ LET pl == injection_payloads[i + 1] IN
       /\ Exchange("sql", pl, PayloadRequest("sql", "?q=", pl), r)
       /\ IF ~r.ok
          THEN Return("sql", <<Warning("SQL Injection Test", r)>>)
          ELSE IF HasSqlError(r.text)
          THEN Return("sql",
                 <<VAPTTestResult("SQL Injection", "critical", "vulnerable",
                     [payload |-> pl, status_code |-> r.status])>>)
          ELSE IF i + 1 < Len(injection_payloads)
          THEN Continue
          ELSE Return("sql", <<>>)

\* test_xss reporting an explicit secure verdict when no payload matched.
test_xss_secure(r) ==
    /\ pc = "xss"
    /\ LET pl == xss_payloads[i + 1] IN
       /\ Exchange("xss", pl, PayloadRequest("xss", "?input=", pl), r)
       /\ IF ~r.ok
          THEN Return("xss", <<Warning("XSS Test", r)>>)
          ELSE IF Reflects(r.text, pl)
          THEN Return("xss",
                 <<VAPTTestResult("XSS (Cross-Site Scripting)", "high",
                     "vulnerable",
                     [payload |-> pl, status_code |-> r.status])>>)
          ELSE IF i + 1 < Len(xss_payloads)
          THEN Continue
          ELSE Return("xss",
                 <<VAPTTestResult("XSS (Cross-Site Scripting)", "info",
                     "secure", [status |-> "no_reflection"])>>)

\* test_xss going on to the next payload after a failed request.
test_xss_retry(r) ==
    /\ pc = "xss"
    /\ LET pl == xss_payloads[i + 1] IN
       /\ Exchange("xss", pl, PayloadRequest("xss", "?input=", pl), r)
       /\ IF r.ok /\ Reflects(r.text, pl)
          THEN Return("xss",
                 <<VAPTTestResult("XSS (Cross-Site Scripting)", "high",
                     "vulnerable",
                     [payload |-> pl, status_code |-> r.status])>>)
          ELSE IF i + 1 < Len(xss_payloads)
          THEN Continue
          ELSE IF ~r.ok
          THEN Return("xss", <<Warning("XSS Test", r)>>)
          ELSE Return("xss", <<>>)

test_xss(r) ==
    /\ pc = "xss"
    /\ LET pl == xss_payloads[i + 1] IN
       /\ Exchange("xss", pl, PayloadRequest("xss", "?input=", pl), r)
       /\ IF ~r.ok
          THEN Return("xss", <<Warning("XSS Test", r)>>)
          ELSE IF Reflects(r.text, pl)
          THEN Return("xss",
                 <<VAPTTestResult("XSS (Cross-Site Scripting)", "high",
                     "vulnerable",
                     [payload |-> pl, status_code |-> r.status])>>)
          ELSE IF i + 1 < Len(xss_payloads)
          THEN Continue
          ELSE Return("xss", <<>>)

\* dict.pop(key, None) on a copy
Pop(h, key) == [n \in DOMAIN h \ {key} |-> h[n]]

\* test_headers of test_authentication
AuthHeaders(h) == Pop(Pop(h, "Authorization"), "X-API-Key")

\* test_authentication taking every 2xx status for an open endpoint.
test_authentication_lenient(r) ==
    /\ pc = "auth"
    /\ Exchange("auth", "",
                PlainRequest("auth", AuthHeaders(headers), InjectionTimeout), r)
    /\ IF ~r.ok
       THEN Return("auth", <<Warning("Authentication Test", r)>>)
       ELSE IF r.status >= 200 /\ r.status < 300
       THEN Return("auth",
              <<VAPTTestResult("Authentication", "high", "vulnerable",
                  [status_code |-> r.status])>>)
       ELSE IF r.status \in {401, 403}
       THEN Return("auth",
              <<VAPTTestResult("Authentication", "info", "secure",
                  [status_code |-> r.status])>>)
       ELSE Return("auth", <<>>)

\* test_authentication popping from the caller's dict itself, without the
\* copy of line 212.
test_authentication_inplace(r) ==
    /\ pc = "auth"
    /\ session = "open"
    /\ payload' = ""
    /\ request' = PlainRequest("auth", AuthHeaders(headers), InjectionTimeout)
    /\ responses' = <<r>>
    /\ started' = Append(started, "auth")
    /\ trace' = IF trace.some THEN Some(Append(trace.val, r)) ELSE trace
    /\ headers' = AuthHeaders(headers)
    /\ args' = IF args.headers.some
               THEN [args EXCEPT !.headers = Some(AuthHeaders(headers))]
               ELSE args
    /\ UNCHANGED <<method, test_types, body, report, runs, appvars>>
    /\ IF ~r.ok
       THEN Return("auth", <<Warning("Authentication Test", r)>>)
       ELSE IF r.status = 200
       THEN Return("auth",
              <<VAPTTestResult("Authentication", "high", "vulnerable",
                  [status_code |-> r.status])>>)
       ELSE IF r.status \in {401, 403}
       THEN Return("auth",
              <<VAPTTestResult("Authentication", "info", "secure",
                  [status_code |-> r.status])>>)
       ELSE Return("auth", <<>>)

\* test_authentication rating an open endpoint critical.
test_authentication_critical(r) ==
    /\ pc = "auth"
    /\ Exchange("auth", "",
                PlainRequest("auth", AuthHeaders(headers), InjectionTimeout), r)
    /\ IF ~r.ok
       THEN Return("auth", <<Warning("Authentication Test", r)>>)
       ELSE IF r.status = 200
       THEN Return("auth",
              <<VAPTTestResult("Authentication", "critical", "vulnerable",
                  [status_code |-> r.status])>>)
       ELSE IF r.status \in {401, 403}
       THEN Return("auth",
              <<VAPTTestResult("Authentication", "info", "secure",
                  [status_code |-> r.status])>>)
       ELSE Return("auth", <<>>)

test_authentication(r) ==
    /\ pc = "auth"
    /\ Exchange("auth", "",
                PlainRequest("auth", AuthHeaders(headers), InjectionTimeout), r)
    /\ IF ~r.ok
       THEN Return("auth", <<Warning("Authentication Test", r)>>)
       ELSE IF r.status = 200
       THEN Return("auth",
              <<VAPTTestResult("Authentication", "high", "vulnerable",
                  [status_code |-> r.status])>>)
       ELSE IF r.status \in {401, 403}
       THEN Return("auth",
              <<VAPTTestResult("Authentication", "info", "secure",
                  [status_code |-> r.status])>>)
       ELSE Return("auth", <<>>)

\* test_rate_limiting with the exception caught inside the loop, so that the
\* check of rate_limit_exceeded after the loop still runs.
test_rate_limiting_leaky(r) ==
    /\ pc = "rate"
    /\ Exchange("rate", "", PlainRequest("rate", headers, RateLimitTimeout), r)
    /\ IF ~r.ok
       THEN Return("rate",
              << Warning("Rate Limiting Test", r),
                 VAPTTestResult("Rate Limiting", "medium", "vulnerable",
                     [requests_sent |-> rate_limit_requests]) >>)
       ELSE IF r.status = 429
       THEN Return("rate",
              <<VAPTTestResult("Rate Limiting", "info", "secure",
                  [requests_before_limit |-> i + 1])>>)
       ELSE IF i + 1 < rate_limit_requests
       THEN Continue
       ELSE Return("rate",
              <<VAPTTestResult("Rate Limiting", "medium", "vulnerable",
                  [requests_sent |-> rate_limit_requests])>>)

\* test_rate_limiting without the assignment rate_limit_exceeded = True: the
\* check after the loop appends its Finding after a 429 as well.
test_rate_limiting_unflagged(r) ==
    /\ pc = "rate"
    /\ Exchange("rate", "", PlainRequest("rate", headers, RateLimitTimeout), r)
    /\ IF ~r.ok
       THEN Return("rate", <<Warning("Rate Limiting Test", r)>>)
       ELSE IF r.status = 429
       THEN Return("rate",
              <<VAPTTestResult("Rate Limiting", "info", "secure",
                  [requests_before_limit |-> i + 1]),
                VAPTTestResult("Rate Limiting", "medium", "vulnerable",
                  [requests_sent |-> rate_limit_requests])>>)
       ELSE IF i + 1 < rate_limit_requests
       THEN Continue
       ELSE Return("rate",
              <<VAPTTestResult("Rate Limiting", "medium", "vulnerable",
                  [requests_sent |-> rate_limit_requests])>>)

\* test_rate_limiting reporting the loop index instead of the count.
test_rate_limiting_index(r) ==
    /\ pc = "rate"
    /\ Exchange("rate", "", PlainRequest("rate", headers, RateLimitTimeout), r)
    /\ IF ~r.ok
       THEN Return("rate", <<Warning("Rate Limiting Test", r)>>)
       ELSE IF r.status = 429
       THEN Return("rate",
              <<VAPTTestResult("Rate Limiting", "info", "secure",
                  [requests_before_limit |-> i])>>)
       ELSE IF i + 1 < rate_limit_requests
       THEN Continue
       ELSE Return("rate",
              <<VAPTTestResult("Rate Limiting", "medium", "vulnerable",
                  [requests_sent |-> rate_limit_requests])>>)

\* test_rate_limiting with a loop that goes round once more.
test_rate_limiting_extra(r) ==
    /\ pc = "rate"
    /\ Exchange("rate", "", PlainRequest("rate", headers, RateLimitTimeout), r)
    /\ IF ~r.ok
       THEN Return("rate", <<Warning("Rate Limiting Test", r)>>)
       ELSE IF r.status = 429
       THEN Return("rate",
              <<VAPTTestResult("Rate Limiting", "info", "secure",
                  [requests_before_limit |-> i + 1])>>)
       ELSE IF i + 1 <= rate_limit_requests
       THEN Continue
       ELSE Return("rate",
              <<VAPTTestResult("Rate Limiting", "medium", "vulnerable",
                  [requests_sent |-> rate_limit_requests])>>)

test_rate_limiting(r) ==
    /\ pc = "rate"
    /\ Exchange("rate", "", PlainRequest("rate", headers, RateLimitTimeout), r)
    /\ IF ~r.ok
       THEN Return("rate", <<Warning("Rate Limiting Test", r)>>)
       ELSE IF r.status = 429
       THEN Return("rate",
              <<VAPTTestResult("Rate Limiting", "info", "secure",
                  [requests_before_limit |-> i + 1])>>)
       ELSE IF i + 1 < rate_limit_requests
       THEN Continue
       ELSE Return("rate",
              <<VAPTTestResult("Rate Limiting", "medium", "vulnerable",
                  [requests_sent |-> rate_limit_requests])>>)

cors_headers ==
    [n \in {"Origin", "Access-Control-Request-Method",
            "Access-Control-Request-Headers"} |->
        CASE n = "Origin" -> "https://evil.com"
          [] n = "Access-Control-Request-Method" -> method
          [] n = "Access-Control-Request-Headers" -> "X-Custom-Header"]

\* response.headers.get(name, "")
HeaderGet(hdrs, name) == IF name \in DOMAIN hdrs THEN hdrs[name] ELSE ""

\* test_cors_policy taking the echo of the probe's own Origin for an open
\* policy.
test_cors_policy_echo(r) ==
    /\ pc = "cors"
    /\ Exchange("cors", "",
                [PlainRequest("cors", cors_headers, InjectionTimeout)
                    EXCEPT !.verb = "OPTIONS"], r)
    /\ LET cors_allow_origin ==
               HeaderGet(r.headers, "Access-Control-Allow-Origin") IN
       IF ~r.ok
       THEN Return("cors", <<Warning("CORS Policy Test", r)>>)
       ELSE IF cors_allow_origin \in {"*", cors_headers["Origin"]}
       THEN Return("cors",
              <<VAPTTestResult("CORS Policy", "medium", "vulnerable",
                  [access_control_allow_origin |-> cors_allow_origin])>>)
       ELSE IF cors_allow_origin # ""
       THEN Return("cors",
              <<VAPTTestResult("CORS Policy", "info", "secure",
                  [access_control_allow_origin |-> cors_allow_origin])>>)
       ELSE Return("cors", <<>>)

test_cors_policy(r) ==
    /\ pc = "cors"
    /\ Exchange("cors", "",
                [PlainRequest("cors", cors_headers, InjectionTimeout)
                    EXCEPT !.verb = "OPTIONS"], r)
    /\ LET cors_allow_origin ==
               HeaderGet(r.headers, "Access-Control-Allow-Origin") IN
       IF ~r.ok
       THEN Return("cors", <<Warning("CORS Policy Test", r)>>)
       ELSE IF cors_allow_origin = "*"
       THEN Return("cors",
              <<VAPTTestResult("CORS Policy", "medium", "vulnerable",
                  [access_control_allow_origin |-> cors_allow_origin])>>)
       ELSE IF cors_allow_origin # ""
       THEN Return("cors",
              <<VAPTTestResult("CORS Policy", "info", "secure",
                  [access_control_allow_origin |-> cors_allow_origin])>>)
       ELSE Return("cors", <<>>)

security_headers ==
    << "Strict-Transport-Security", "X-Content-Type-Options",
       "X-Frame-Options", "Content-Security-Policy", "X-XSS-Protection" >>

\* [h for h in security_headers if h not in response.headers]
missing_headers(hdrs) ==
    SelectSeq(security_headers, LAMBDA h : h \notin DOMAIN hdrs)

\* test_security_headers appending one Finding for each missing header.
test_security_headers_each(r) ==
    /\ pc = "headers"
    /\ Exchange("headers", "",
                PlainRequest("headers", headers, InjectionTimeout), r)
    /\ IF ~r.ok
       THEN Return("headers", <<Warning("Security Headers Test", r)>>)
       ELSE IF missing_headers(r.headers) # <<>>
       THEN Return("headers",
              [k \in DOMAIN missing_headers(r.headers) |->
                  VAPTTestResult("Security Headers", "medium", "vulnerable",
                      [missing_headers |-> <<missing_headers(r.headers)[k]>>])])
       ELSE Return("headers",
              <<VAPTTestResult("Security Headers", "info", "secure",
                  [status |-> "all_headers_present"])>>)

test_security_headers(r) ==
    /\ pc = "headers"
    /\ Exchange("headers", "",
                PlainRequest("headers", headers, InjectionTimeout), r)
    /\ IF ~r.ok
       THEN Return("headers", <<Warning("Security Headers Test", r)>>)
       ELSE IF missing_headers(r.headers) # <<>>
       THEN Return("headers",
              <<VAPTTestResult("Security Headers", "medium", "vulnerable",
                  [missing_headers |-> missing_headers(r.headers)])>>)
       ELSE Return("headers",
              <<VAPTTestResult("Security Headers", "info", "secure",
                  [status |-> "all_headers_present"])>>)

----------------------------------------------------------------------------
(* vapt_security_test                                                       *)

\* args.get(key, default), the argument being absent or None when not given
ArgOr(o, default) == IF o.some THEN o.val ELSE default

\* vapt_security_test with all_results kept in a list that outlives the call
\* instead of the fresh local of line 526.
vapt_security_test_accumulate ==
    /\ pc = "start"
    /\ method' = ArgOr(args.method, "GET")
    /\ test_types' = ArgOr(args.test_types, DefaultTestTypes)
    /\ headers' = ArgOr(args.headers, <<>>)
    /\ body' = args.body
    /\ all_results' = all_results
    /\ pc' = NextFrom(test_types', 1)
    /\ session' = IF pc' = "report" THEN "closed" ELSE "open"
    /\ UNCHANGED <<args, i, payload, request, responses, returned, started,
                   report, trace, runs, appvars>>

\* vapt_security_test falling back on the four test types that the default
\* of VAPTTestInput.test_types lists.
vapt_security_test_input_default ==
    /\ pc = "start"
    /\ method' = ArgOr(args.method, "GET")
    /\ test_types' = ArgOr(args.test_types,
                           <<"injection", "auth", "rate_limit", "cors">>)
    /\ headers' = ArgOr(args.headers, <<>>)
    /\ body' = args.body
    /\ all_results' = <<>>
    /\ pc' = NextFrom(test_types', 1)
    /\ session' = IF pc' = "report" THEN "closed" ELSE "open"
    /\ UNCHANGED <<args, i, payload, request, responses, returned, started,
                   report, trace, runs, appvars>>

\* Lines 513-530: the parameters are read, the defaults applied, all_results
\* is created and the session is opened (and closed at once when no probe
\* is requested).
vapt_security_test ==
    /\ pc = "start"
    /\ method' = ArgOr(args.method, "GET")
    /\ test_types' = ArgOr(args.test_types, DefaultTestTypes)
    /\ headers' = ArgOr(args.headers, <<>>)
    /\ body' = args.body
    /\ all_results' = <<>>
    /\ pc' = NextFrom(test_types', 1)
    /\ session' = IF pc' = "report" THEN "closed" ELSE "open"
    /\ UNCHANGED <<args, i, payload, request, responses, returned, started,
                   report, trace, runs, appvars>>

CountWhere(res, field, v) ==
    Cardinality({k \in DOMAIN res : res[k][field] = v})

\* build_report raising instead of returning.
build_report_raises ==
    /\ pc = "report"
    /\ pc' = "raised"
    /\ UNCHANGED <<args, session, method, test_types, headers, body, i, payload,
                   request, responses, returned, started, all_results, report,
                   trace, runs, appvars>>

\* build_report leaving the warnings out of the summary.
build_report_nowarn ==
    /\ pc = "report"
    /\ report' = Some(
         [endpoint |-> Endpoint,
          method |-> method,
          tests_performed |-> test_types,
          total_vulnerabilities |-> CountWhere(all_results, "status", "vulnerable"),
          results |-> all_results,
          summary |-> [critical |-> CountWhere(all_results, "severity", "critical"),
                       high |-> CountWhere(all_results, "severity", "high"),
                       medium |-> CountWhere(all_results, "severity", "medium"),
                       low |-> CountWhere(all_results, "severity", "low"),
                       info |-> Cardinality({k \in DOMAIN all_results :
                                    /\ all_results[k].severity = "info"
                                    /\ all_results[k].status # "warning"})]])
    /\ pc' = "done"
    /\ UNCHANGED <<args, session, method, test_types, headers, body, i, payload,
                   request, responses, returned, started, all_results,
                   trace, runs, appvars>>

\* Lines 561-582: the report is built from all_results and returned.
build_report ==
    /\ pc = "report"
    /\ report' = Some(
         [endpoint |-> Endpoint,
          method |-> method,
          tests_performed |-> test_types,
          total_vulnerabilities |-> CountWhere(all_results, "status", "vulnerable"),
          results |-> all_results,
          summary |-> [critical |-> CountWhere(all_results, "severity", "critical"),
                       high |-> CountWhere(all_results, "severity", "high"),
                       medium |-> CountWhere(all_results, "severity", "medium"),
                       low |-> CountWhere(all_results, "severity", "low"),
                       info |-> CountWhere(all_results, "severity", "info")]])
    /\ pc' = "done"
    /\ UNCHANGED <<args, session, method, test_types, headers, body, i, payload,
                   request, responses, returned, started, all_results,
                   trace, runs, appvars>>


----------------------------------------------------------------------------
(* The inputs and the transport of the dispatch specification               *)

TestTypes == Range(DefaultTestTypes)

\* The elements of the sequence s that are in the set S, in the order of s.
Filter(s, S) == SelectSeq(s, LAMBDA x : x \in S)

RECURSIVE SeqsUpTo(_, _)
SeqsUpTo(S, n) ==
    IF n = 0 THEN {<<>>}
    ELSE LET shorter == SeqsUpTo(S, n - 1) IN
         shorter \cup {Append(s, x) : s \in shorter, x \in S}

\* Longest list of test types drawn from all the labels, "ssl" among them,
\* which no probe answers to.
MaxListLen == 1

\* Lists that are not in the order of the default, repeat a type or hold a
\* label no probe answers to.
IrregularLists ==
    { <<"cors", "injection">>,
      <<"headers", "auth", "injection">>,
      <<"auth", "auth">>,
      <<"injection", "cors", "injection">>,
      <<"ssl", "cors">>,
      <<"headers", "ssl", "auth">> }

\* test_types as the caller may give it: not at all, every subset of the five
\* types in the order of the default, every short list and some irregular
\* ones.
TestTypeArgs ==
    {None}
      \cup {Some(Filter(DefaultTestTypes, S)) : S \in SUBSET TestTypes}
      \cup {Some(l) : l \in SeqsUpTo(TestTypes \cup {"ssl"}, MaxListLen)}
      \cup {Some(l) : l \in IrregularLists}

AllSecurityHeaders == [h \in Range(security_headers) |-> "on"]

\* A response that gives no probe anything to report but the headers probe.
Quiet == Response(404, {}, AllSecurityHeaders)

\* A response every probe takes for a vulnerability.
Loud ==
    Response(200, {"SQL"} \cup Range(xss_payloads),
             [h \in {"Access-Control-Allow-Origin"} |-> "*"])

Denied ==
    Response(401, {},
             [h \in DOMAIN AllSecurityHeaders \cup {"Access-Control-Allow-Origin"} |->
                 IF h = "Access-Control-Allow-Origin"
                 THEN "https://trusted.example" ELSE "on"])

Limited == Response(429, {}, AllSecurityHeaders)

Refused == Failure("Cannot connect to host")

DispatchResponses(p) ==
    CASE p \in {"sql", "xss", "headers"} -> {Quiet, Loud, Refused}
      [] p \in {"auth", "cors"} -> {Quiet, Loud, Denied, Refused}
      [] p = "rate" -> {Quiet, Limited, Refused}

\* run_security_test has not been called.
AppIdle ==
    /\ generator = "idle"
    /\ worker = "idle"
    /\ lock = "free"
    /\ progress_messages = <<>>
    /\ result = [report_content |-> None, report_file_path |-> None,
                 error |-> None, done |-> FALSE]
    /\ last_len = 0
    /\ yields = <<>>

\* vapt_security_test is called with args a: nothing has run yet.
Invoked(a) ==
    /\ args = a
    /\ pc = "start"
    /\ session = "none"
    /\ method = ""
    /\ test_types = <<>>
    /\ headers = <<>>
    /\ body = None
    /\ i = 0
    /\ payload = ""
    /\ request = NoRequest
    /\ responses = <<>>
    /\ returned = NoReturn
    /\ started = <<>>
    /\ all_results = <<>>
    /\ report = None

Call(a) ==
    /\ Invoked(a)
    /\ trace = None
    /\ runs = <<>>
    /\ AppIdle

Init ==
    \E t \in TestTypeArgs :
        Call([method |-> None, test_types |-> t, headers |-> None, body |-> None])

Next ==
    \/ vapt_security_test
    \/ \E r \in DispatchResponses("sql") : test_sql_injection(r)
    \/ \E r \in DispatchResponses("xss") : test_xss(r)
    \/ \E r \in DispatchResponses("auth") : test_authentication(r)
    \/ \E r \in DispatchResponses("rate") : test_rate_limiting(r)
    \/ \E r \in DispatchResponses("cors") : test_cors_policy(r)
    \/ \E r \in DispatchResponses("headers") : test_security_headers(r)
    \/ build_report

Spec == Init /\ [][Next]_vars


\* Longest explicit list of test types of the termination specification.
FairListLen == 1

\* The calls of the termination specification: no test_types (all five
\* types) and every short list.
InitFair ==
    \E t \in {None} \cup {Some(l) : l \in SeqsUpTo(TestTypes \cup {"ssl"}, FairListLen)} :
        Call([method |-> None, test_types |-> t, headers |-> None, body |-> None])

\* The scheduler runs the coroutine whenever it can take a step: every
\* request it awaits is answered or fails.
SpecFair == InitFair /\ [][Next]_vars /\ WF_vars(Next)

----------------------------------------------------------------------------
(* The injection specification: a run of the SQLi and XSS probes for every  *)
(* method and body, with responses of every kind the two probes tell apart. *)

Methods == {"GET", "POST", "PUT", "PATCH", "DELETE", "HEAD", "get"}

CallerBody == <<"{\"id\": 1}">>

\* body as the caller may give it: not at all, the empty string, a string.
BodyArgs == {None, Some(<<>>), Some(CallerBody)}

Escaped == "&lt;script&gt;alert('XSS')&lt;/script&gt;"

SqlResponses ==
    { Response(200, {}, <<>>),
      Response(500, {"Internal Server Error"}, <<>>),
      Response(500, {"SQL"}, <<>>),
      Response(200, {"Syntax Error", "Welcome"}, <<>>),
      Response(400, {"database error"}, <<>>),
      Refused }

XssResponses ==
    { Response(200, {}, <<>>),
      Response(200, {Escaped}, <<>>),
      Response(200, {xss_payloads[1]}, <<>>),
      Response(400, {xss_payloads[2]}, <<>>),
      Response(200, {xss_payloads[3], "Welcome"}, <<>>),
      Refused }

InitInjection ==
    \E m \in {None} \cup {Some(x) : x \in Methods}, b \in BodyArgs :
        Call([method |-> m, test_types |-> Some(<<"injection">>),
              headers |-> None, body |-> b])

NextInjection ==
    \/ vapt_security_test
    \/ \E r \in SqlResponses : test_sql_injection(r)
    \/ \E r \in XssResponses : test_xss(r)
    \/ build_report

SpecInjection == InitInjection /\ [][NextInjection]_vars

----------------------------------------------------------------------------
(* The authentication specification: a run of the Auth probe for every      *)
(* headers map over a few names and every kind of status.                   *)

HeaderNames == {"Authorization", "X-API-Key", "authorization", "Accept"}

HeaderValues == {"v1", "v2"}

HeaderMaps == UNION {[D -> HeaderValues] : D \in SUBSET HeaderNames}

AuthStatuses == {200, 204, 302, 401, 403, 404, 500}

AuthResponses == {Response(st, {}, <<>>) : st \in AuthStatuses} \cup {Refused}

InitAuth ==
    \E h \in {None} \cup {Some(x) : x \in HeaderMaps} :
        Call([method |-> None, test_types |-> Some(<<"auth">>),
              headers |-> h, body |-> None])

NextAuth ==
    \/ vapt_security_test
    \/ \E r \in AuthResponses : test_authentication(r)
    \/ build_report

SpecAuth == InitAuth /\ [][NextAuth]_vars


----------------------------------------------------------------------------
(* The rate-limit specification: a run of the Rate-Limit probe in which     *)
(* each of the 50 requests may be answered, be answered with 429, or fail.  *)

RateResponses == {Response(200, {}, <<>>), Limited, Refused}

InitRate ==
    \E m \in {None, Some("POST")},
       h \in {None, Some([n \in {"Authorization"} |-> "v1"])} :
        Call([method |-> m, test_types |-> Some(<<"rate_limit">>),
              headers |-> h, body |-> None])

NextRate ==
    \/ vapt_security_test
    \/ \E r \in RateResponses : test_rate_limiting(r)
    \/ build_report

SpecRate == InitRate /\ [][NextRate]_vars

----------------------------------------------------------------------------
(* The CORS specification: a run of the CORS probe for every kind of value  *)
(* of the Access-Control-Allow-Origin response header.                      *)

AllowOriginValues ==
    {"", "*", "null", "https://trusted.example", "https://evil.com"}

CorsResponses ==
    {Response(st, {}, <<>>) : st \in {200, 204, 404}}
      \cup {Response(st, {}, [h \in {"Access-Control-Allow-Origin"} |-> v]) :
              st \in {200, 204, 404}, v \in AllowOriginValues}
      \cup {Refused}

InitCors ==
    \E m \in {None, Some("POST"), Some("DELETE")} :
        Call([method |-> m, test_types |-> Some(<<"cors">>),
              headers |-> None, body |-> None])

NextCors ==
    \/ vapt_security_test
    \/ \E r \in CorsResponses : test_cors_policy(r)
    \/ build_report

SpecCors == InitCors /\ [][NextCors]_vars

----------------------------------------------------------------------------
(* The headers specification: a run of the Headers probe for every subset   *)
(* of the checklist present in the response.                                *)

HeadersResponses ==
    {Response(st, {}, [h \in P |-> "on"]) :
        st \in {200, 500}, P \in SUBSET Range(security_headers)}
      \cup {Response(200, {}, [h \in {"Server", "X-Frame-Options"} |-> "on"])}
      \cup {Refused}

InitHeaders ==
    \E h \in {None, Some([n \in {"Accept"} |-> "v1"])} :
        Call([method |-> None, test_types |-> Some(<<"headers">>),
              headers |-> h, body |-> None])

NextHeaders ==
    \/ vapt_security_test
    \/ \E r \in HeadersResponses : test_security_headers(r)
    \/ build_report

SpecHeaders == InitHeaders /\ [][NextHeaders]_vars

----------------------------------------------------------------------------
(* The runs specification: the tool is invoked several times in a row, with *)
(* the outcomes of every run recorded, and a run can be cancelled while it  *)
(* awaits a request.                                                        *)

MaxRuns == 3

\* asyncio.CancelledError is thrown into the coroutine while a probe awaits
\* a request.  It is no Exception, so no probe catches it: it leaves the
\* `async with` block of line 530, which closes the session, and then
\* vapt_security_test.
cancelled ==
    /\ pc \in Range(Probes)
    /\ session = "open"
    /\ pc' = "raised"
    /\ session' = "closed"
    /\ UNCHANGED <<args, method, test_types, headers, body, i, payload,
                   request, responses, returned, started, all_results, report,
                   trace, runs, appvars>>

\* The tool is invoked again with args a once the run before it has ended:
\* a new coroutine, whose locals are bound by lines 516-530 and whose
\* probes have not run.  What the ended run left in the locals that lines
\* 516-526 assign is kept, as those lines assign them before any use.
invoke(a) ==
    /\ pc \in {"done", "raised"}
    /\ Len(runs) + 1 < MaxRuns
    /\ runs' = Append(runs, [args |-> args, trace |-> trace.val,
                             report |-> report, session |-> session])
    /\ args' = a
    /\ pc' = "start"
    /\ session' = "none"
    /\ report' = None
    /\ trace' = Some(<<>>)
    /\ i' = 0
    /\ payload' = ""
    /\ request' = NoRequest
    /\ responses' = <<>>
    /\ returned' = NoReturn
    /\ started' = <<>>
    /\ UNCHANGED <<method, test_types, headers, body, all_results, appvars>>

RunsArgs ==
    {[method |-> None, test_types |-> Some(t), headers |-> None, body |-> None] :
        t \in {<<"auth", "cors">>, <<"headers">>, <<>>}}

RunsResponses == {Quiet, Loud, Refused}

InitRuns ==
    \E a \in RunsArgs :
        /\ Invoked(a)
        /\ trace = Some(<<>>)
        /\ runs = <<>>
        /\ AppIdle

NextRuns ==
    \/ vapt_security_test
    \/ \E r \in RunsResponses : test_authentication(r)
    \/ \E r \in RunsResponses : test_cors_policy(r)
    \/ \E r \in RunsResponses : test_security_headers(r)
    \/ build_report
    \/ cancelled
    \/ \E a \in RunsArgs : invoke(a)

SpecRuns == InitRuns /\ [][NextRuns]_vars

----------------------------------------------------------------------------
(* The budget specification: runs of all six probes, or of some of them,    *)
(* with the outcome of every request of the run recorded.                   *)

BudgetTestTypes ==
    {None, Some(<<"injection", "rate_limit">>), Some(<<"rate_limit", "auth">>),
     Some(<<"headers", "cors", "ssl">>), Some(<<>>)}

BudgetResponses(p) ==
    IF p = "rate" THEN {Quiet, Limited, Refused} ELSE {Quiet, Refused}

InitBudget ==
    \E t \in BudgetTestTypes :
        /\ Invoked([method |-> None, test_types |-> t, headers |-> None,
                    body |-> None])
        /\ trace = Some(<<>>)
        /\ runs = <<>>
        /\ AppIdle

NextBudget ==
    \/ vapt_security_test
    \/ \E r \in BudgetResponses("sql") : test_sql_injection(r)
    \/ \E r \in BudgetResponses("xss") : test_xss(r)
    \/ \E r \in BudgetResponses("auth") : test_authentication(r)
    \/ \E r \in BudgetResponses("rate") : test_rate_limiting(r)
    \/ \E r \in BudgetResponses("cors") : test_cors_policy(r)
    \/ \E r \in BudgetResponses("headers") : test_security_headers(r)
    \/ build_report

SpecBudget == InitBudget /\ [][NextBudget]_vars

----------------------------------------------------------------------------
(* The frame specification: the Auth probe followed by probes that send the *)
(* caller's headers, for callers with and without credentials.              *)

FrameHeaders ==
    {None} \cup
    {Some([n \in D |-> IF n = "Accept" THEN "v2" ELSE "v1"]) :
        D \in SUBSET {"Authorization", "X-API-Key", "authorization", "Accept"}}

FrameResponses(p) ==
    IF p = "rate" THEN {Quiet, Limited, Refused} ELSE {Quiet, Loud, Refused}

InitFrame ==
    \E h \in FrameHeaders,
       t \in {<<"auth", "rate_limit", "headers">>, <<"headers", "auth">>} :
        Call([method |-> None, test_types |-> Some(t), headers |-> h,
              body |-> None])

NextFrame ==
    \/ vapt_security_test
    \/ \E r \in FrameResponses("auth") : test_authentication(r)
    \/ \E r \in FrameResponses("rate") : test_rate_limiting(r)
    \/ \E r \in FrameResponses("headers") : test_security_headers(r)
    \/ build_report

SpecFrame == InitFrame /\ [][NextFrame]_vars

----------------------------------------------------------------------------
(* The permutation specification: runs in a row whose test_types name the   *)
(* same types in different orders, twice, or together with unknown labels.  *)

PermuteArgs ==
    {[method |-> None, test_types |-> Some(t), headers |-> None, body |-> None] :
        t \in {<<"auth", "cors">>, <<"cors", "auth">>, <<"auth", "cors", "auth">>,
               <<"ssl", "cors", "auth">>, <<>>, <<"ssl">>}}

PermuteResponses == {Loud, Refused}

InitPermute ==
    \E a \in PermuteArgs :
        /\ Invoked(a)
        /\ trace = Some(<<>>)
        /\ runs = <<>>
        /\ AppIdle

NextPermute ==
    \/ vapt_security_test
    \/ \E r \in PermuteResponses : test_authentication(r)
    \/ \E r \in PermuteResponses : test_cors_policy(r)
    \/ build_report
    \/ \E a \in PermuteArgs : invoke(a)

SpecPermute == InitPermute /\ [][NextPermute]_vars

----------------------------------------------------------------------------
(* run_security_test of app.py, called with a valid endpoint: the generator *)
(* and its background thread agent_worker.  A step of the generator runs    *)
(* from one suspension point (a yield, the sleep, the wait for the lock) to *)
(* the next; a step of the worker is one call of progress_callback, the     *)
(* end of the try block, an except handler, or the finally clause.  The     *)
(* joined progress text is the sequence of its lines, a line the sequence   *)
(* of its fragments, the emoji of the source's messages left out.           *)

MaxMessages == 2

\* f"[{datetime.now().strftime('%H:%M:%S')}] {msg}", msg given by fragments
Stamp(msg) == <<"[HH:MM:SS] ">> \o msg

\* The messages run_vapt_agent_with_callback passes to the callback first.
WorkerMessages ==
    << <<"Using Anthropic API for Claude">>,
       <<"Connecting to Postman MCP server...">>,
       <<"Initializing VAPT security tools...">> >>

\* How run_until_complete ends: with (content, path), with
\* asyncio.TimeoutError, or with an Exception of some text, which is empty
\* for an exception raised without arguments.
Returns ==
    {[content |-> <<"# VAPT Report">>, path |-> f] :
        f \in {None, Some("reports/vapt_report.md")}}

Raises == {"POSTMAN_API_KEY not found in environment variables", ""}

Tuple(prog, md, file) == [progress |-> prog, report |-> md, file |-> file]

\* add_progress(msg) followed by the yield of its return value.
YieldProgress(msg, md, file) ==
    /\ lock = "free"
    /\ progress_messages' = Append(progress_messages, Stamp(msg))
    /\ yields' = Append(yields, Tuple(progress_messages', md, file))

\* Lines 89-94: the first yield.
initial_message ==
    /\ generator = "init"
    /\ YieldProgress(<<"Initializing VAPT Agent...">>,
                     <<"## Starting Security Test", "Please wait">>, None)
    /\ generator' = "headers"
    /\ UNCHANGED <<worker, lock, result, last_len, toolvars>>

\* Lines 96-104: the yield for a caller who gave an API key.
api_key_message ==
    /\ generator = "headers"
    /\ \E api_key \in BOOLEAN :
          IF api_key
          THEN YieldProgress(<<"API key provided">>,
                   <<"## Starting Security Test", "Preparing">>, None)
          ELSE UNCHANGED <<progress_messages, yields>>
    /\ generator' = "connect"
    /\ UNCHANGED <<worker, lock, result, last_len, toolvars>>

\* Lines 107-142: result is created, the third yield, and the thread starts
\* when the generator is resumed.
start_thread ==
    /\ generator = "connect"
    /\ YieldProgress(<<"Connecting to security engine...">>,
                     <<"## Starting Security Test", "Connecting...">>, None)
    /\ result' = [report_content |-> None, report_file_path |-> None,
                  error |-> None, done |-> FALSE]
    /\ worker' = "running"
    /\ last_len' = 0
    /\ generator' = "poll"
    /\ UNCHANGED <<lock, toolvars>>

\* Lines 85-87, called from the worker thread: one append under the lock.
progress_callback ==
    /\ worker = "running"
    /\ lock = "free"
    /\ \E k \in 1 .. MaxMessages :
          /\ k = 1 + Cardinality({n \in DOMAIN progress_messages :
                     \E m \in Range(WorkerMessages) :
                         progress_messages[n] = Stamp(m)})
          /\ progress_messages' =
                Append(progress_messages, Stamp(WorkerMessages[k]))
    /\ UNCHANGED <<generator, worker, lock, result, last_len, yields, toolvars>>

\* Lines 116-128: run_until_complete returned and both results are stored.
agent_worker_returns ==
    /\ worker = "running"
    /\ \E o \in Returns :
          result' = [result EXCEPT !.report_content = Some(o.content),
                                   !.report_file_path = o.path]
    /\ worker' = "try_end"
    /\ UNCHANGED <<generator, lock, progress_messages, last_len, yields,
                   toolvars>>

\* Lines 129-130: except asyncio.TimeoutError
agent_worker_timeout ==
    /\ worker = "running"
    /\ result' = [result EXCEPT
                    !.error = Some("Timeout: Security test took too long")]
    /\ worker' = "except"
    /\ UNCHANGED <<generator, lock, progress_messages, last_len, yields,
                   toolvars>>

\* Lines 131-132: except Exception as e: result["error"] = str(e)
agent_worker_raises ==
    /\ worker = "running"
    /\ \E e \in Raises : result' = [result EXCEPT !.error = Some(e)]
    /\ worker' = "except"
    /\ UNCHANGED <<generator, lock, progress_messages, last_len, yields,
                   toolvars>>

\* Lines 133-134: finally: result["done"] = True, and the thread ends.
agent_worker_finally ==
    /\ worker \in {"try_end", "except"}
    /\ result' = [result EXCEPT !.done = TRUE]
    /\ worker' = IF worker = "try_end" THEN "returned" ELSE "handled"
    /\ UNCHANGED <<generator, lock, progress_messages, last_len, yields,
                   toolvars>>

\* Lines 146-147: the test of the while loop and the sleep.
poll ==
    /\ generator = "poll"
    /\ generator' = IF result.done THEN "final" ELSE "slept"
    /\ UNCHANGED <<worker, lock, progress_messages, result, last_len, yields,
                   toolvars>>

\* Lines 148-154: the lock is taken and, when there are new messages, the
\* generator yields them while it holds the lock.
poll_locked ==
    /\ generator = "slept"
    /\ lock = "free"
    /\ IF Len(progress_messages) > last_len
       THEN /\ yields' = Append(yields,
                   Tuple(progress_messages,
                         <<"## Security Test in Progress">>, None))
            /\ lock' = "generator"
            /\ generator' = "yielded"
       ELSE /\ generator' = "poll"
            /\ UNCHANGED <<yields, lock>>
    /\ UNCHANGED <<worker, progress_messages, result, last_len, toolvars>>

\* Line 155: the generator is resumed, updates last_len and frees the lock.
poll_resumed ==
    /\ generator = "yielded"
    /\ last_len' = Len(progress_messages)
    /\ lock' = "free"
    /\ generator' = "poll"
    /\ UNCHANGED <<worker, progress_messages, result, yields, toolvars>>

\* Python truthiness of result["error"]: None and "" are falsy.
HasError == result.error.some /\ result.error.val # ""

\* Lines 157-178: the last yield.
final_handling ==
    /\ generator = "final"
    /\ IF HasError
       THEN IF result.error.val = "Timeout: Security test took too long"
            THEN YieldProgress(<<"Timeout: ", result.error.val>>,
                     <<"## Error", "**Timeout Error**">>, None)
            ELSE YieldProgress(<<"Error: ", result.error.val>>,
                     <<"## Error", "**Exception Occurred**", result.error.val>>,
                     None)
       ELSE YieldProgress(<<"Security assessment completed successfully!">>,
                IF Truthy(result.report_content)
                THEN result.report_content.val
                ELSE <<"## Error", "No report was generated.">>,
                result.report_file_path)
    /\ generator' = "end"
    /\ UNCHANGED <<worker, lock, result, last_len, toolvars>>

InitApp ==
    /\ Invoked([method |-> None, test_types |-> None, headers |-> None,
                body |-> None])
    /\ trace = None
    /\ runs = <<>>
    /\ generator = "init"
    /\ worker = "idle"
    /\ lock = "free"
    /\ progress_messages = <<>>
    /\ result = [report_content |-> None, report_file_path |-> None,
                 error |-> None, done |-> FALSE]
    /\ last_len = 0
    /\ yields = <<>>

NextApp ==
    \/ initial_message
    \/ api_key_message
    \/ start_thread
    \/ progress_callback
    \/ agent_worker_returns
    \/ agent_worker_timeout
    \/ agent_worker_raises
    \/ agent_worker_finally
    \/ poll
    \/ poll_locked
    \/ poll_resumed
    \/ final_handling

SpecApp == InitApp /\ [][NextApp]_vars

----------------------------------------------------------------------------
(* Properties                                                               *)

\* The probes a list of test types asks for.
Implied(types) ==
    (IF "injection" \in Range(types) THEN {"sql", "xss"} ELSE {})
      \cup (IF "auth" \in Range(types) THEN {"auth"} ELSE {})
      \cup (IF "rate_limit" \in Range(types) THEN {"rate"} ELSE {})
      \cup (IF "cors" \in Range(types) THEN {"cors"} ELSE {})
      \cup (IF "headers" \in Range(types) THEN {"headers"} ELSE {})

Position(p) ==
    CASE p = "sql" -> 1 [] p = "xss" -> 2 [] p = "auth" -> 3
      [] p = "rate" -> 4 [] p = "cors" -> 5 [] p = "headers" -> 6

\* Where the run stands once probe p has returned: at the next probe asked
\* for, or at the report.
FollowUp(p) ==
    LET later == {q \in Implied(test_types) : Position(q) > Position(p)} IN
    IF later = {} THEN "report"
    ELSE CHOOSE q \in later : \A o \in later : Position(q) <= Position(o)

LastOutcome == responses[Len(responses)]

IsWarning(f, r) ==
    /\ f.severity = "info"
    /\ f.status = "warning"
    /\ f.evidence = [error |-> r.error]

\* The test_type labels under which each probe reports.
Labels(p) ==
    CASE p = "sql" -> {"SQL Injection", "SQL Injection Test"}
      [] p = "xss" -> {"XSS (Cross-Site Scripting)", "XSS Test"}
      [] p = "auth" -> {"Authentication", "Authentication Test"}
      [] p = "rate" -> {"Rate Limiting", "Rate Limiting Test"}
      [] p = "cors" -> {"CORS Policy", "CORS Policy Test"}
      [] p = "headers" -> {"Security Headers", "Security Headers Test"}

\* C1: the probes that issue requests are exactly those the requested test
\* types imply ("injection" both SQLi and XSS), they start in the order SQLi,
\* XSS, Auth, Rate-Limit, CORS, Headers, and a probe of a type that was not
\* requested issues no request.
C1_ProbesRunInOrder ==
    /\ Range(started) \subseteq Implied(test_types)
    /\ request.probe # "" => request.probe \in Implied(test_types)
    /\ \A a, b \in DOMAIN started :
          a < b => Position(started[a]) < Position(started[b])
    /\ pc \in {"report", "done"} => Range(started) = Implied(test_types)

C1_Witness ==
    /\ pc = "done"
    /\ args.test_types = Some(<<"cors", "injection">>)
    /\ started = <<"sql", "xss", "cors">>

\* C2: when a request of a probe fails, that probe returns exactly one
\* Finding, a Warning (info, warning, evidence with the error text), it is the
\* probe's only Finding in the report, the run does not raise and goes on
\* with the probes that follow.
C2_FailureIsOneWarning ==
    /\ pc # "raised"
    /\ \A p \in Range(Probes) :
          (request.probe = p /\ ~LastOutcome.ok) =>
              /\ returned[p].some
              /\ Len(returned[p].val) = 1
              /\ IsWarning(returned[p].val[1], LastOutcome)
              /\ all_results # <<>>
              /\ all_results[Len(all_results)] = returned[p].val[1]
              /\ \/ pc = FollowUp(p)
                 \/ FollowUp(p) = "report" /\ pc = "done"
    /\ pc = "done" =>
          /\ report.some
          /\ \A p \in Range(Probes) :
                (/\ returned[p].some
                 /\ \E k \in DOMAIN returned[p].val :
                       returned[p].val[k].status = "warning")
                  => Cardinality({k \in DOMAIN report.val.results :
                        report.val.results[k].test_type \in Labels(p)}) = 1

C2_Witness ==
    /\ request.probe = "rate"
    /\ Len(responses) = 7
    /\ ~LastOutcome.ok
    /\ returned["rate"].some
    /\ pc = "cors"

\* C3: every call of vapt_security_test eventually returns a report, whatever
\* the outcome of each request.
C3_Terminates == <>(pc = "done" /\ report.some)

\* Every request of every probe failed and the report was returned.
C3_Witness ==
    /\ pc = "done"
    /\ report.some
    /\ Len(started) = 6
    /\ Len(report.val.results) = 6
    /\ \A k \in DOMAIN report.val.results :
          report.val.results[k].status = "warning"

\* The fragments of a response body that hold an SQL error indicator in some
\* letter case.
IndicatorFragments ==
    {"SQL", "sql", "MySQL", "Syntax Error", "syntax error", "database error",
     "ORACLE"}

Indicating(r) == r.ok /\ r.text \cap IndicatorFragments # {}

\* The k-th response is the first one with an SQL error indicator.
FirstIndicationAt(k) ==
    /\ k \in DOMAIN responses
    /\ Indicating(responses[k])
    /\ \A j \in 1 .. k - 1 : responses[j].ok /\ ~Indicating(responses[j])

\* C4: if the response to the k-th SQLi payload is the first with an SQL
\* error indicator, the probe has issued exactly k requests and returned
\* exactly one Finding, critical/vulnerable, whose evidence holds the k-th
\* payload and the status of the k-th response.
C4_SqlShortCircuit ==
    \A k \in 1 .. Len(injection_payloads) :
        (request.probe = "sql" /\ FirstIndicationAt(k)) =>
            /\ Len(responses) = k
            /\ pc # "sql"
            /\ payload = injection_payloads[k]
            /\ returned["sql"].some
            /\ Len(returned["sql"].val) = 1
            /\ returned["sql"].val[1].severity = "critical"
            /\ returned["sql"].val[1].status = "vulnerable"
            /\ returned["sql"].val[1].evidence =
                  [payload |-> injection_payloads[k],
                   status_code |-> responses[k].status]

C4_Witness ==
    /\ request.probe = "sql"
    /\ Len(responses) = 3
    /\ FirstIndicationAt(3)
    /\ responses[3].status = 500
    /\ returned["sql"].some
    /\ returned["sql"].val[1].evidence.payload = "' UNION SELECT NULL--"

OwnReflection(k) ==
    responses[k].ok /\ xss_payloads[k] \in responses[k].text

\* C5: the j-th request of the SQLi (XSS) probe is the one for the j-th
\* payload of its list and there is none after the last payload; when all 5
\* (3) requests succeed and no response holds an error indicator (reflects its
\* payload), the probe returns no Finding.
C5_ExhaustionNoFinding ==
    /\ request.probe = "sql" =>
          /\ Len(responses) \in 1 .. Len(injection_payloads)
          /\ payload = injection_payloads[Len(responses)]
    /\ request.probe = "xss" =>
          /\ Len(responses) \in 1 .. Len(xss_payloads)
          /\ payload = xss_payloads[Len(responses)]
    /\ (/\ request.probe = "sql"
        /\ Len(responses) = Len(injection_payloads)
        /\ \A j \in DOMAIN responses :
              responses[j].ok /\ ~Indicating(responses[j]))
         => returned["sql"] = Some(<<>>) /\ pc # "sql"
    /\ (/\ request.probe = "xss"
        /\ Len(responses) = Len(xss_payloads)
        /\ \A j \in DOMAIN responses : responses[j].ok /\ ~OwnReflection(j))
         => returned["xss"] = Some(<<>>) /\ pc # "xss"

C5_Witness ==
    /\ pc = "done"
    /\ request.probe = "xss"
    /\ Len(responses) = Len(xss_payloads)
    /\ \A j \in DOMAIN responses : responses[j].ok
    /\ returned["sql"] = Some(<<>>)
    /\ returned["xss"] = Some(<<>>)
    /\ report.val.results = <<>>

\* C6: in the SQLi, XSS and Rate-Limit probes a failed request is the
\* probe's last: if request n fails the probe has issued exactly n requests
\* and returned exactly one Finding, info/warning, and none that is vulnerable
\* or secure.
C6_NoRetryAfterFailure ==
    \A p \in {"sql", "xss", "rate"} :
        \A n \in DOMAIN responses :
            (request.probe = p /\ ~responses[n].ok) =>
                /\ n = Len(responses)
                /\ pc # p
                /\ returned[p].some
                /\ Len(returned[p].val) = 1
                /\ returned[p].val[1].severity = "info"
                /\ returned[p].val[1].status = "warning"

\* The last of the 50 requests of the Rate-Limit probe failed.
C6_Witness ==
    /\ request.probe = "rate"
    /\ Len(responses) = rate_limit_requests
    /\ ~LastOutcome.ok
    /\ \A n \in 1 .. Len(responses) - 1 : responses[n].ok
    /\ returned["rate"].some
    /\ returned["rate"].val[1].status = "warning"

\* C7: in the SQLi and XSS probes, when the caller gave no body, every
\* request carries its payload, in the URL or in the body, for every method.
C7_PayloadAlwaysCarried ==
    (request.probe \in {"sql", "xss"} /\ ~args.body.some) =>
        \/ payload \in Range(request.url)
        \/ request.data.some /\ payload \in Range(request.data.val)

\* C8: if the response to the k-th XSS payload is the first that holds its
\* own payload verbatim, the probe has issued exactly k requests and returned
\* exactly one Finding, high/vulnerable, with the k-th payload as evidence; a
\* response that holds only another payload of the list is no match.
C8_XssFirstReflection ==
    /\ \A k \in 1 .. Len(xss_payloads) :
          (/\ request.probe = "xss"
           /\ k \in DOMAIN responses
           /\ OwnReflection(k)
           /\ \A j \in 1 .. k - 1 : responses[j].ok /\ ~OwnReflection(j)) =>
              /\ Len(responses) = k
              /\ pc # "xss"
              /\ returned["xss"].some
              /\ Len(returned["xss"].val) = 1
              /\ returned["xss"].val[1].severity = "high"
              /\ returned["xss"].val[1].status = "vulnerable"
              /\ returned["xss"].val[1].evidence.payload = xss_payloads[k]
    /\ (/\ request.probe = "xss"
        /\ returned["xss"].some
        /\ ~OwnReflection(Len(responses))) =>
            \A k \in DOMAIN returned["xss"].val :
                returned["xss"].val[k].status # "vulnerable"

\* The first response held the second payload, not the first; the second
\* response held the second payload.
C8_Witness ==
    /\ request.probe = "xss"
    /\ Len(responses) = 2
    /\ responses[1].ok
    /\ responses[1].text = {xss_payloads[2]}
    /\ OwnReflection(2)
    /\ returned["xss"].some
    /\ returned["xss"].val[1].evidence.payload = xss_payloads[2]

\* The name of a header field: field names are case-insensitive.
FieldName(n) ==
    CASE n = "Authorization" -> "authorization"
      [] n = "X-API-Key" -> "x-api-key"
      [] n = "Accept" -> "accept"
      [] OTHER -> n

Credentials == {"authorization", "x-api-key"}

\* C9: the Auth probe issues exactly one request, whose headers hold no
\* Authorization and no X-API-Key header and every other header of the
\* caller with its value.
C9_AuthHeadersStripped ==
    request.probe = "auth" =>
        /\ Len(responses) = 1
        /\ \A n \in DOMAIN request.headers : FieldName(n) \notin Credentials
        /\ \A n \in DOMAIN headers :
              FieldName(n) \notin Credentials =>
                  /\ n \in DOMAIN request.headers
                  /\ request.headers[n] = headers[n]

\* C10: the Auth probe returns one high/vulnerable Finding for status 200,
\* one info/secure Finding for status 401 or 403 and no Finding for any other
\* status.
C10_AuthClassification ==
    (request.probe = "auth" /\ LastOutcome.ok) =>
        /\ returned["auth"].some
        /\ LET st == LastOutcome.status
               res == returned["auth"].val
           IN  CASE st = 200 ->
                     /\ Len(res) = 1
                     /\ res[1].severity = "high"
                     /\ res[1].status = "vulnerable"
                 [] st \in {401, 403} ->
                     /\ Len(res) = 1
                     /\ res[1].severity = "info"
                     /\ res[1].status = "secure"
                 [] OTHER -> res = <<>>

\* A status that is neither 200 nor 401 nor 403 left the report empty.
C10_Witness ==
    /\ pc = "done"
    /\ request.probe = "auth"
    /\ LastOutcome.ok
    /\ LastOutcome.status = 204
    /\ returned["auth"] = Some(<<>>)
    /\ report.val.results = <<>>


\* The n-th response is the first one with status 429, none before it failed.
FirstLimitAt(n) ==
    /\ n \in DOMAIN responses
    /\ responses[n].ok
    /\ responses[n].status = 429
    /\ \A j \in 1 .. n - 1 : responses[j].ok /\ responses[j].status # 429

\* C11: if the n-th response of the Rate-Limit probe is the first with status
\* 429, the probe has issued exactly n requests and returned exactly one
\* Finding, info/secure, with requests_before_limit = n, the request that got
\* the 429 included.
C11_RateShortCircuit ==
    \A n \in 1 .. rate_limit_requests :
        (request.probe = "rate" /\ FirstLimitAt(n)) =>
            /\ Len(responses) = n
            /\ pc # "rate"
            /\ returned["rate"].some
            /\ Len(returned["rate"].val) = 1
            /\ returned["rate"].val[1].severity = "info"
            /\ returned["rate"].val[1].status = "secure"
            /\ returned["rate"].val[1].evidence = [requests_before_limit |-> n]

C11_Witness ==
    /\ request.probe = "rate"
    /\ FirstLimitAt(11)
    /\ returned["rate"].some
    /\ returned["rate"].val[1].evidence.requests_before_limit = 11
    /\ pc = "done"

\* Every one of the 50 requests was answered, none with status 429.
CeilingReached ==
    /\ Len(responses) = rate_limit_requests
    /\ \A j \in DOMAIN responses : responses[j].ok /\ responses[j].status # 429

\* C12: the Rate-Limit probe never issues a 51st request; when 50 requests
\* are answered and none with 429 it returns exactly one Finding,
\* medium/vulnerable, with requests_sent = 50, and it returns a vulnerable
\* Finding in no other case.
C12_RateCeiling ==
    request.probe = "rate" =>
        /\ Len(responses) <= rate_limit_requests
        /\ CeilingReached =>
              /\ pc # "rate"
              /\ returned["rate"].some
              /\ Len(returned["rate"].val) = 1
              /\ returned["rate"].val[1].severity = "medium"
              /\ returned["rate"].val[1].status = "vulnerable"
              /\ returned["rate"].val[1].evidence =
                    [requests_sent |-> rate_limit_requests]
        /\ (/\ returned["rate"].some
            /\ \E k \in DOMAIN returned["rate"].val :
                  returned["rate"].val[k].status = "vulnerable")
             => CeilingReached

C12_Witness ==
    /\ request.probe = "rate"
    /\ CeilingReached
    /\ returned["rate"].some
    /\ returned["rate"].val[1].evidence.requests_sent = 50
    /\ report.some
    /\ report.val.total_vulnerabilities = 1


\* The value of the Access-Control-Allow-Origin header of a response, the
\* empty string when the response has none.
AllowOrigin(r) ==
    IF "Access-Control-Allow-Origin" \in DOMAIN r.headers
    THEN r.headers["Access-Control-Allow-Origin"] ELSE ""

\* C13: the CORS probe returns one medium/vulnerable Finding for the value
\* "*" of Access-Control-Allow-Origin, one info/secure Finding for every
\* other non-empty value, the probe's own Origin among them, and no Finding
\* when the header is absent or empty.
C13_CorsClassification ==
    (request.probe = "cors" /\ LastOutcome.ok) =>
        /\ returned["cors"].some
        /\ LET v == AllowOrigin(LastOutcome)
               res == returned["cors"].val
           IN  CASE v = "*" ->
                     /\ Len(res) = 1
                     /\ res[1].severity = "medium"
                     /\ res[1].status = "vulnerable"
                     /\ res[1].evidence = [access_control_allow_origin |-> v]
                 [] v = "" -> res = <<>>
                 [] OTHER ->
                     /\ Len(res) = 1
                     /\ res[1].severity = "info"
                     /\ res[1].status = "secure"
                     /\ res[1].evidence = [access_control_allow_origin |-> v]

\* The response allowed the probe's own Origin and the verdict was secure.
C13_Witness ==
    /\ request.probe = "cors"
    /\ request.headers["Origin"] = "https://evil.com"
    /\ LastOutcome.ok
    /\ AllowOrigin(LastOutcome) = "https://evil.com"
    /\ returned["cors"].some
    /\ returned["cors"].val[1].status = "secure"
    /\ pc = "done"

Checklist ==
    {"Strict-Transport-Security", "X-Content-Type-Options", "X-Frame-Options",
     "Content-Security-Policy", "X-XSS-Protection"}

\* The checklist headers a response lacks.
Missing(r) == Checklist \ DOMAIN r.headers

\* C14: for every set M of checklist headers missing from the response the
\* Headers probe returns exactly one Finding: medium/vulnerable with
\* missing_headers naming exactly the headers of M, each once, when M is
\* not empty, info/secure when it is.
C14_HeadersOneFinding ==
    (request.probe = "headers" /\ LastOutcome.ok) =>
        /\ returned["headers"].some
        /\ LET M == Missing(LastOutcome)
               res == returned["headers"].val
           IN  /\ Len(res) = 1
               /\ IF M # {}
                  THEN /\ res[1].severity = "medium"
                       /\ res[1].status = "vulnerable"
                       /\ Range(res[1].evidence.missing_headers) = M
                       /\ Len(res[1].evidence.missing_headers) = Cardinality(M)
                  ELSE /\ res[1].severity = "info"
                       /\ res[1].status = "secure"

C14_Witness ==
    /\ request.probe = "headers"
    /\ LastOutcome.ok
    /\ Missing(LastOutcome) = {"Content-Security-Policy", "X-Frame-Options"}
    /\ returned["headers"].some
    /\ Len(returned["headers"].val) = 1
    /\ Range(returned["headers"].val[1].evidence.missing_headers) =
          {"Content-Security-Policy", "X-Frame-Options"}
    /\ report.some
    /\ report.val.summary.medium = 1

Severities == {"critical", "high", "medium", "low", "info"}

\* The number of Findings of res whose field has the value v, counted one
\* Finding at a time.
RECURSIVE Tally(_, _, _)
Tally(res, field, v) ==
    IF res = <<>> THEN 0
    ELSE (IF Head(res)[field] = v THEN 1 ELSE 0) + Tally(Tail(res), field, v)

\* C15: in every report summary[s] is the number of Findings of results with
\* severity s, whatever their status (a warning counts under info), and
\* total_vulnerabilities is the number of Findings with status vulnerable.
C15_Aggregation ==
    report.some =>
        /\ \A s \in Severities :
              report.val.summary[s] = Tally(report.val.results, "severity", s)
        /\ report.val.total_vulnerabilities =
              Tally(report.val.results, "status", "vulnerable")

\* A report with a warning and a secure Finding under info and two
\* vulnerable Findings of different severities.
C15_Witness ==
    /\ report.some
    /\ \E a, b, c, d \in DOMAIN report.val.results :
          /\ report.val.results[a].status = "warning"
          /\ report.val.results[b].status = "secure"
          /\ report.val.results[c].severity = "critical"
          /\ report.val.results[d].severity = "medium"
    /\ report.val.summary.info >= 2
    /\ report.val.total_vulnerabilities >= 2

\* C16: in every report the five summary values sum to the number of
\* results, and total_vulnerabilities is at most that number.
C16_SummarySums ==
    report.some =>
        /\ report.val.summary.critical + report.val.summary.high
             + report.val.summary.medium + report.val.summary.low
             + report.val.summary.info = Len(report.val.results)
        /\ report.val.total_vulnerabilities <= Len(report.val.results)
        /\ DOMAIN report.val.summary = Severities

\* A report of six Findings, one of each probe, with a warning among them.
C16_Witness ==
    /\ report.some
    /\ Len(report.val.results) = 6
    /\ \E k \in DOMAIN report.val.results :
          report.val.results[k].status = "warning"
    /\ \E k \in DOMAIN report.val.results :
          report.val.results[k].status = "vulnerable"

\* A probe of the category of the label was executed in this run.
Executed(label) == \E p \in Range(started) : GuardOf(p) = label

\* C17: tests_performed of the report holds a label if and only if a probe
\* of that category was executed in the run, and holds no label twice.
C17_TestsPerformedRan ==
    report.some =>
        LET tp == report.val.tests_performed IN
        /\ \A l \in Range(tp) \cup {GuardOf(p) : p \in Range(started)} :
              l \in Range(tp) <=> Executed(l)
        /\ \A a, b \in DOMAIN tp : a # b => tp[a] # tp[b]

NonEmptyEvidence(f) == f.evidence # None /\ DOMAIN f.evidence # {}

\* C19: every Finding of every report whose status is vulnerable or warning
\* has a non-empty evidence map.
C19_EvidencePresent ==
    report.some =>
        \A k \in DOMAIN report.val.results :
            report.val.results[k].status \in {"vulnerable", "warning"} =>
                NonEmptyEvidence(report.val.results[k])

\* A report with a vulnerable Finding of each probe's vulnerable branch that
\* the others leave reachable, and a warning.
C19_Witness ==
    /\ report.some
    /\ \E a, b, c \in DOMAIN report.val.results :
          /\ report.val.results[a].status = "warning"
          /\ report.val.results[b].test_type = "Authentication"
          /\ report.val.results[b].status = "vulnerable"
          /\ report.val.results[c].test_type = "Security Headers"
          /\ report.val.results[c].status = "vulnerable"

\* The severity of the vulnerable Finding of each probe.
FixedSeverity(tt) ==
    CASE tt = "SQL Injection" -> "critical"
      [] tt = "XSS (Cross-Site Scripting)" -> "high"
      [] tt = "Authentication" -> "high"
      [] tt = "Rate Limiting" -> "medium"
      [] tt = "CORS Policy" -> "medium"
      [] tt = "Security Headers" -> "medium"
      [] OTHER -> "none"

\* C20: in every Finding of every report the status is vulnerable, secure
\* or warning; a warning and a secure Finding have severity info, and a
\* vulnerable Finding has the severity fixed for its probe (SQLi critical,
\* XSS and Auth high, Rate-Limit, CORS and Headers medium).
C20_SeverityByStatus ==
    report.some =>
        \A k \in DOMAIN report.val.results :
            LET f == report.val.results[k] IN
            /\ f.status \in {"vulnerable", "secure", "warning"}
            /\ f.status \in {"warning", "secure"} => f.severity = "info"
            /\ f.status = "vulnerable" =>
                  /\ f.severity = FixedSeverity(f.test_type)
                  /\ f.severity \notin {"info", "low"}

\* A report with the vulnerable Finding of every probe.
C20_Witness ==
    /\ report.some
    /\ \A tt \in {"SQL Injection", "XSS (Cross-Site Scripting)",
                  "Authentication", "Rate Limiting", "CORS Policy",
                  "Security Headers"} :
          \E k \in DOMAIN report.val.results :
              /\ report.val.results[k].test_type = tt
              /\ report.val.results[k].status = "vulnerable"

\* C21: the probes run strictly one after the other: every request belongs
\* to the probe started last, a probe that has started and not yet returned
\* is the one started last, no probe starts twice, and the report exists
\* only when every requested probe has returned and all_results is complete.
C21_SequentialNoPartialReport ==
    /\ request.probe # "" => request.probe = started[Len(started)]
    /\ \A k \in DOMAIN started :
          ~returned[started[k]].some => k = Len(started)
    /\ \A a, b \in DOMAIN started : a # b => started[a] # started[b]
    /\ \A p \in Range(Probes) : returned[p].some => p \in Range(started)
    /\ report.some =>
          /\ pc = "done"
          /\ \A p \in Implied(test_types) : returned[p].some
          /\ report.val.results = all_results

\* The rate-limit loop is in its third request: the three probes before it
\* have returned, the two after it have not started, there is no report.
C21_Witness ==
    /\ pc = "rate"
    /\ request.probe = "rate"
    /\ Len(responses) = 2
    /\ started = <<"sql", "xss", "auth", "rate">>
    /\ returned["sql"].some /\ returned["xss"].some /\ returned["auth"].some
    /\ ~returned["rate"].some
    /\ {"cors", "headers"} \subseteq Implied(test_types)
    /\ ~report.some

\* C22: a run has no session before it starts, an open one while a probe
\* runs, and a closed one once the probes are over, by return or by an
\* exception; the session of every ended run is closed; and a session only
\* ever goes from absent to acquired (at the start of the run, before any
\* request), from open to closed, and from closed to absent when the next
\* run begins.
C22_SessionScoped ==
    /\ [](/\ pc = "start" => (session = "none" /\ request = NoRequest
                                /\ started = <<>>)
          /\ pc \in Range(Probes) => session = "open"
          /\ pc \in {"report", "done", "raised"} => session = "closed"
          /\ \A k \in DOMAIN runs : runs[k].session = "closed")
    /\ [][/\ (request' # request /\ request' # NoRequest) =>
                (session = "open" /\ pc \in Range(Probes))
          /\ session' # session =>
               \/ /\ session = "none"
                  /\ pc = "start" /\ pc' # "start"
                  /\ started' = <<>>
               \/ /\ session = "open" /\ session' = "closed"
                  /\ pc' \in {"report", "raised"}
               \/ /\ session = "closed" /\ session' = "none"
                  /\ pc' = "start"
                  /\ Len(runs') = Len(runs) + 1]_vars

\* A run that returned its report is followed by a run that was cancelled
\* after its first probe: both sessions are closed.
C22_Witness ==
    /\ Len(runs) = 1
    /\ runs[1].report.some
    /\ runs[1].trace # <<>>
    /\ runs[1].session = "closed"
    /\ pc = "raised"
    /\ returned["auth"].some
    /\ session = "closed"

\* The runs that have ended, the one in progress included once it has.
Ended ==
    Range(runs) \cup
       (IF pc \in {"done", "raised"}
        THEN {[args |-> args, trace |-> trace.val, report |-> report,
               session |-> session]}
        ELSE {})

\* C23: two runs with the same args and the same sequence of transport
\* outcomes end with the same report, whatever ran before either of them.
C23_Stateless ==
    \A a, b \in Ended :
        (a.args = b.args /\ a.trace = b.trace
           /\ a.report.some /\ b.report.some) => a.report = b.report

\* The third run repeats the first, with Findings, after a different second
\* run with Findings of its own.
C23_Witness ==
    /\ Len(runs) = 2
    /\ pc = "done"
    /\ runs[1].args = args
    /\ runs[1].trace = trace.val
    /\ runs[2].args # args
    /\ runs[1].report = report
    /\ Len(report.val.results) = 2
    /\ runs[2].report.some
    /\ runs[2].report.val.results # <<>>

\* What a probe returned, nothing when it did not run.
FindingsOf(p) == IF returned[p].some THEN returned[p].val ELSE <<>>

\* The probe a Finding comes from, by its test_type label.
ProbeOf(f) == CHOOSE p \in Range(Probes) : f.test_type \in Labels(p)

\* C24: the results of every report are the Findings of SQLi, then XSS, then
\* Auth, then Rate-Limit, then CORS, then Headers, whatever the order in
\* which the caller listed the test types.
C24_ResultsInProbeOrder ==
    report.some =>
        /\ report.val.results =
              FindingsOf("sql") \o FindingsOf("xss") \o FindingsOf("auth")
                \o FindingsOf("rate") \o FindingsOf("cors")
                \o FindingsOf("headers")
        /\ \A a, b \in DOMAIN report.val.results :
              a < b => Position(ProbeOf(report.val.results[a]))
                          < Position(ProbeOf(report.val.results[b]))

\* The caller listed cors before injection and the report has the Findings
\* of SQLi, XSS and CORS in that order.
C24_Witness ==
    /\ report.some
    /\ args.test_types = Some(<<"cors", "injection">>)
    /\ Len(report.val.results) = 3
    /\ report.val.results[1].test_type \in Labels("sql")
    /\ report.val.results[2].test_type \in Labels("xss")
    /\ report.val.results[3].test_type \in Labels("cors")

\* C25: a request of the SQLi or XSS probe carries a body exactly when the
\* method is POST, PUT or PATCH; for those methods a non-empty body of the
\* caller is sent as it is, without the payload; for every other method no
\* body is sent, whatever the caller supplied.
C25_CallerBodyVerbatim ==
    request.probe \in {"sql", "xss"} =>
        /\ request.data.some <=> request.verb \in {"POST", "PUT", "PATCH"}
        /\ (request.data.some /\ args.body.some /\ args.body.val # <<>>) =>
              /\ request.data.val = args.body.val
              /\ payload \notin Range(request.data.val)
        /\ request.verb \notin {"POST", "PUT", "PATCH"} => request.data = None

\* The third SQLi request of a PUT run with the caller's body: the body is
\* the caller's, and the payload of the iteration is not in it.
C25_Witness ==
    /\ request.probe = "sql"
    /\ request.verb = "PUT"
    /\ args.body = Some(CallerBody)
    /\ Len(responses) = 3
    /\ payload = injection_payloads[3]
    /\ request.data = Some(CallerBody)

\* C26: a probe that has returned contributed at most one Finding, the
\* Rate-Limit and the Headers probe exactly one; hence a report has at most
\* six results and at most six vulnerabilities.
C26_OneFindingPerProbe ==
    /\ \A p \in Range(Probes) :
          returned[p].some =>
              /\ Len(returned[p].val) <= 1
              /\ p \in {"rate", "headers"} => Len(returned[p].val) = 1
    /\ report.some =>
          /\ Len(report.val.results) <= 6
          /\ report.val.total_vulnerabilities <= 6
          /\ \A p \in Range(Probes) :
                Cardinality({k \in DOMAIN report.val.results :
                    report.val.results[k].test_type \in Labels(p)}) <= 1

\* A report with six results, all vulnerable, and the SQLi probe found its
\* match only at the last payload.
C26_Witness ==
    /\ report.some
    /\ Len(report.val.results) = 6
    /\ report.val.total_vulnerabilities = 6
    /\ report.val.results[1].evidence.payload = injection_payloads[5]

\* The most requests each probe issues.
Budget(p) ==
    CASE p = "sql" -> 5 [] p = "xss" -> 3 [] p = "auth" -> 1
      [] p = "rate" -> 50 [] p = "cors" -> 1 [] p = "headers" -> 1

\* C27: a probe issues at most its budget of requests (SQLi 5, XSS 3, Auth 1,
\* Rate-Limit 50, CORS 1, Headers 1) and a run at most 61 in all.
C27_RequestBudget ==
    /\ request.probe # "" => Len(responses) <= Budget(request.probe)
    /\ Len(trace.val) <= 61
    /\ Len(trace.val) <=
          5 * Cardinality(Range(started) \cap {"sql"})
            + 3 * Cardinality(Range(started) \cap {"xss"})
            + 50 * Cardinality(Range(started) \cap {"rate"})
            + Cardinality(Range(started) \cap {"auth", "cors", "headers"})

\* The run that issued all 61 requests.
C27_Witness ==
    /\ report.some
    /\ Len(trace.val) = 61
    /\ Len(started) = 6
    /\ \A k \in 1 .. 60 : trace.val[k].ok

\* The headers as the caller gave them.
CallerHeaders == IF args.headers.some THEN args.headers.val ELSE <<>>

\* C28: the Auth probe leaves the caller's headers as they are: no step of
\* the run changes the headers of args or, once bound, the local headers;
\* the Auth probe's own request has no Authorization and no X-API-Key
\* header; and every request of the Rate-Limit and Headers probes, after the
\* Auth probe as before it, has every header of the caller with the
\* caller's value.
C28_AuthLeavesHeaders ==
    /\ [][/\ args.headers' = args.headers
          /\ pc # "start" => headers' = headers]_vars
    /\ [](/\ request.probe = "auth" =>
                /\ "Authorization" \notin DOMAIN request.headers
                /\ "X-API-Key" \notin DOMAIN request.headers
          /\ request.probe \in {"rate", "headers"} =>
                /\ DOMAIN request.headers = DOMAIN CallerHeaders
                /\ \A n \in DOMAIN CallerHeaders :
                      request.headers[n] = CallerHeaders[n]
          /\ pc # "start" => headers = CallerHeaders)

\* The Headers probe, after the Auth probe and the Rate-Limit probe, sent
\* the caller's Authorization and X-API-Key headers.
C28_Witness ==
    /\ started = <<"auth", "rate", "headers">>
    /\ returned["auth"].some
    /\ request.probe = "headers"
    /\ DOMAIN request.headers = {"Authorization", "X-API-Key", "Accept"}
    /\ request.headers["Authorization"] = "v1"
    /\ request.headers["X-API-Key"] = "v1"
    /\ pc = "done"

KnownLabels == {"injection", "auth", "rate_limit", "cors", "headers"}

\* The known labels a list of test types names.
Named(types) == Range(types) \cap KnownLabels

\* The probes of a set of labels, in the order of the dispatcher.
InOrder(S) ==
    (IF "injection" \in S THEN <<"sql", "xss">> ELSE <<>>)
      \o (IF "auth" \in S THEN <<"auth">> ELSE <<>>)
      \o (IF "rate_limit" \in S THEN <<"rate">> ELSE <<>>)
      \o (IF "cors" \in S THEN <<"cors">> ELSE <<>>)
      \o (IF "headers" \in S THEN <<"headers">> ELSE <<>>)

\* C29: the probes run and their order depend only on which known labels
\* the list names: a run that has ended ran the probes of those labels once
\* each, in the dispatcher's order, and ended with a report; two runs whose
\* lists name the same known labels and that met the same outcomes have the
\* same results and counts; and a list naming no known label, the empty
\* list among them, gives a report with no results and all counts zero.
C29_OnlyKnownLabelsCount ==
    /\ pc \in {"report", "done"} => started = InOrder(Named(test_types))
    /\ pc # "raised"
    /\ \A a, b \in Ended :
          (/\ Named(a.args.test_types.val) = Named(b.args.test_types.val)
           /\ a.trace = b.trace) =>
              /\ a.report.some /\ b.report.some
              /\ a.report.val.results = b.report.val.results
              /\ a.report.val.summary = b.report.val.summary
              /\ a.report.val.total_vulnerabilities =
                    b.report.val.total_vulnerabilities
    /\ \A a \in Ended :
          Named(a.args.test_types.val) = {} =>
              /\ a.trace = <<>>
              /\ a.report.some
              /\ a.report.val.results = <<>>
              /\ a.report.val.total_vulnerabilities = 0
              /\ \A sev \in Severities : a.report.val.summary[sev] = 0

\* Three runs have ended: one with auth listed twice around cors, one with
\* cors before auth and an unknown label, both with the same two Findings,
\* and one with the empty list.
C29_Witness ==
    /\ Len(runs) = 2
    /\ pc = "done"
    /\ runs[1].args.test_types.val = <<"auth", "cors", "auth">>
    /\ runs[2].args.test_types.val = <<>>
    /\ runs[2].report.val.results = <<>>
    /\ args.test_types.val = <<"ssl", "cors", "auth">>
    /\ Len(trace.val) = 2
    /\ runs[1].trace = trace.val
    /\ Len(report.val.results) = 2
    /\ runs[1].report.val.results = report.val.results
    /\ report.val.results[1].test_type \in Labels("auth")

\* The lines of a progress text that the worker appended.
FromWorker(prog) ==
    SelectSeq(prog, LAMBDA l : \E m \in Range(WorkerMessages) : l = Stamp(m))

SuccessLine == Stamp(<<"Security assessment completed successfully!">>)

\* C30: the worker has set result["done"] whenever it has ended, by return
\* or by an exception, and the generator leaves its polling loop only then;
\* the last tuple the generator yields has, when the worker raised, a last
\* progress line that is no success line and holds the text of the error,
\* an error report and no file, and otherwise the report content and the
\* file path; and its progress text holds every message the worker
\* appended, in the order of the appends.
C30_WorkerOutcomeReported ==
    /\ worker \in {"returned", "handled"} <=> result.done
    /\ generator \in {"final", "end"} => result.done
    /\ generator = "end" =>
          LET final == yields[Len(yields)]
              last == final.progress[Len(final.progress)]
          IN  /\ worker = "handled" =>
                    /\ last # SuccessLine
                    /\ result.error.val \in Range(last)
                    /\ final.report[1] = "## Error"
                    /\ final.file = None
              /\ worker = "returned" =>
                    /\ last = SuccessLine
                    /\ final.report = result.report_content.val
                    /\ final.file = result.report_file_path
              /\ final.progress = progress_messages
              /\ \E n \in 0 .. MaxMessages :
                    FromWorker(final.progress) =
                       [k \in 1 .. n |-> Stamp(WorkerMessages[k])]
              /\ \A k \in 1 .. Len(yields) - 1 :
                    yields[k].progress # final.progress

=============================================================================
